---- MODULE Spec2Model ----
(***************************************************************************)
(* A model of AdvancedTradingStrategy (src/strategy.py), the backtrader    *)
(* strategy run by src/backtest.py.                                        *)
(*                                                                         *)
(* Line buffers.  Every read self.data.X[k] and self.ind[k] of the source  *)
(* is a backtrader line-buffer read, array[idx + k], where idx is the      *)
(* position of the bar being processed (idx = len(self.data) - 1): k = 0   *)
(* is the current bar, k = -1 the bar before it, k > 0 a bar that the      *)
(* engine has not delivered yet.  The read is a Python array read: it      *)
(* raises IndexError past the end of the buffer and wraps around for a     *)
(* negative position.  With a preloaded feed (the engine's default) the    *)
(* buffer holds the whole feed; with Cerebro(exactbars=True), which is     *)
(* what src/backtest.py:24 asks for, preloading is off and the buffer ends *)
(* at the current bar.  Both are modelled (variable preload).              *)
(*                                                                         *)
(* Numbers.  Bar prices are whole ticks.  The values the risk calculator   *)
(* works with (entry, stop-loss, take-profit) are exact rationals, kept as *)
(* integers over the denominator Den; the source computes them in binary   *)
(* floating point, whose rounding is not modelled.  Times are minutes.     *)
(***************************************************************************)
EXTENDS Integers, Sequences, FiniteSets

VARIABLES
  data,             \* the feed: a sequence of bars with their indicator values
  preload,          \* TRUE: the buffers hold the whole feed (engine default)
  tz_offset,        \* minutes from the naive bar time to Oslo wall-clock time
  use_atr,          \* params.use_atr
  length,           \* len(self.data): bars delivered so far
  last_trade_date,  \* self.last_trade_date: <<>> is None, <<d>> the date d
  orders,           \* orders handed to the broker by self.buy()/self.sell()
  intents,          \* completed enter_trade calls, with what they logged
  status,           \* "running", or the exception that ended the run
  call,             \* the operation last called directly (query/risk specs)
  ret               \* and what it returned

vars == <<data, preload, tz_offset, use_atr, length, last_trade_date,
          orders, intents, status, call, ret>>

(***************************************************************************)
(* Parameters (strategy.py, params)                                        *)
(***************************************************************************)
rr_ratio == 3

volume_threshold == [num |-> 3, den |-> 2]

\* 0.5 price units; a tick of the model is 0.5, so the threshold is one tick
fvg_threshold == 1

engulfing_lookback == 2

stop_loss_buffer == [num |-> 995, den |-> 1000]

trade_start_time == [h |-> 8, m |-> 0]

trade_end_time == [h |-> 22, m |-> 0]

atr_multiplier == 2

\* the fixed 2% stop of calculate_stop_loss: entry * 0.98, entry * 1.02
default_stop_long == [num |-> 980, den |-> 1000]

default_stop_short == [num |-> 1020, den |-> 1000]

(***************************************************************************)
(* Bounds of the model                                                     *)
(***************************************************************************)
\* bars in the feed of a run
FeedLen == 11

\* bars the indicators consume before the engine first calls next()
MinPeriod == 5

\* bars of a run's feed that are not flat
MaxEvents == 2

\* bars in the feed of the query specification
QueryLen == 3

\* bars in the feed of the risk specification
RiskLen == 4

\* largest index passed to a directly called operation
MaxIndex == 2

\* largest ATR (ticks) passed to a directly called operation
MaxAtr == 2

(***************************************************************************)
(* Arithmetic                                                              *)
(***************************************************************************)
Den == stop_loss_buffer.den

\* a bar price (ticks) as a risk-calculator value
Px(t) == t * Den

\* p * r for a rational r
Mul(p, r) == (p * r.num) \div r.den

Abs(x) == IF x < 0 THEN 0 - x ELSE x

Min(S) == CHOOSE x \in S : \A y \in S : x <= y

DayMinutes == 24 * 60

(***************************************************************************)
(* Line buffers (self.data.*, self.rsi, self.stochastic, self.atr,         *)
(* self.avg_volume): array[idx + ago] with idx = len - 1                   *)
(***************************************************************************)
\* number of bars in the buffers when len bars have been delivered
BufLen(len) == IF preload THEN Len(data) ELSE len

\* array[idx + ago] does not raise IndexError
Readable(len, ago) ==
  LET p == len - 1 + ago
  IN  p < BufLen(len) /\ p >= 0 - BufLen(len)

\* the bar array[idx + ago] reads (a negative position counts from the end)
Bar(len, ago) ==
  LET p == len - 1 + ago
  IN  IF p < 0 THEN data[p + BufLen(len) + 1] ELSE data[p + 1]

\* self.data.datetime.date(): the naive calendar date of the current bar
current_date(len) == Bar(len, 0).ts \div DayMinutes

\* datetime.strptime(s, '%H:%M').time()
ParseTime(hm) == hm.h * 60 + hm.m

\* self.data.datetime.datetime().astimezone(oslo_tz).time()
LocalTime(len) == (Bar(len, 0).ts + tz_offset) % DayMinutes

(***************************************************************************)
(* Zone detector                                                           *)
(***************************************************************************)
\* the reads of is_demand_zone, in evaluation order: low[index], low[index-1],
\* then low[index+1] only when the first comparison is true
is_demand_zone_raises(len, index) ==
  \/ ~Readable(len, index)
  \/ ~Readable(len, index - 1)
  \/ /\ Bar(len, index).low < Bar(len, index - 1).low
     /\ ~Readable(len, index + 1)

\* seeded fault: a low equal to the next bar's low counts as a swing low
is_demand_zone_nonstrict(len, index) ==
  /\ ~is_demand_zone_raises(len, index)
  /\ Bar(len, index).low < Bar(len, index - 1).low
  /\ Bar(len, index).low <= Bar(len, index + 1).low
  /\ Bar(len, index).volume * volume_threshold.den
       > Bar(len, index).avg_volume * volume_threshold.num

is_demand_zone(len, index) ==
  /\ ~is_demand_zone_raises(len, index)
  /\ Bar(len, index).low < Bar(len, index - 1).low
  /\ Bar(len, index).low < Bar(len, index + 1).low
  /\ Bar(len, index).volume * volume_threshold.den
       > Bar(len, index).avg_volume * volume_threshold.num

is_supply_zone_raises(len, index) ==
  \/ ~Readable(len, index)
  \/ ~Readable(len, index - 1)
  \/ /\ Bar(len, index).high > Bar(len, index - 1).high
     /\ ~Readable(len, index + 1)

is_supply_zone(len, index) ==
  /\ ~is_supply_zone_raises(len, index)
  /\ Bar(len, index).high > Bar(len, index - 1).high
  /\ Bar(len, index).high > Bar(len, index + 1).high
  /\ Bar(len, index).volume * volume_threshold.den
       > Bar(len, index).avg_volume * volume_threshold.num

(***************************************************************************)
(* Pattern detector                                                        *)
(***************************************************************************)
is_fair_value_gap_raises(len, index) ==
  ~Readable(len, index) \/ ~Readable(len, index - 1)

is_fair_value_gap(len, index) ==
  /\ ~is_fair_value_gap_raises(len, index)
  /\ Abs(Bar(len, index).close - Bar(len, index - 1).open) > fvg_threshold

\* every path of is_engulfing_pattern reads close[index] and open[index-1] first
is_engulfing_pattern_raises(len, index) ==
  ~Readable(len, index) \/ ~Readable(len, index - 1)

\* seeded fault: the bullish test joins its two comparisons with 'or'
is_engulfing_pattern_either(len, index) ==
  IF is_engulfing_pattern_raises(len, index) THEN "None"
  ELSE IF \/ Bar(len, index).close > Bar(len, index - 1).open
          \/ Bar(len, index).open < Bar(len, index - 1).close
       THEN "bullish"
  ELSE IF /\ Bar(len, index).close < Bar(len, index - 1).open
          /\ Bar(len, index).open > Bar(len, index - 1).close
       THEN "bearish"
  ELSE "None"

\* "bullish", "bearish" or "None"
is_engulfing_pattern(len, index) ==
  IF is_engulfing_pattern_raises(len, index) THEN "None"
  ELSE IF /\ Bar(len, index).close > Bar(len, index - 1).open
          /\ Bar(len, index).open < Bar(len, index - 1).close
       THEN "bullish"
  ELSE IF /\ Bar(len, index).close < Bar(len, index - 1).open
          /\ Bar(len, index).open > Bar(len, index - 1).close
       THEN "bearish"
  ELSE "None"

(***************************************************************************)
(* Momentum filter: self.rsi and self.stochastic.percK compare their       *)
(* current value, line[0]                                                  *)
(***************************************************************************)
is_bullish_momentum(len) == Bar(len, 0).rsi < 30 /\ Bar(len, 0).percK < 20

is_bearish_momentum(len) == Bar(len, 0).rsi > 70 /\ Bar(len, 0).percK > 80

(***************************************************************************)
(* Session gate                                                            *)
(***************************************************************************)
\* seeded fault: the end of the window is excluded
is_within_trading_hours_open_end(len) ==
  LET current_time == LocalTime(len)
      start_time   == ParseTime(trade_start_time)
      end_time     == ParseTime(trade_end_time)
  IN  start_time <= current_time /\ current_time < end_time

is_within_trading_hours(len) ==
  LET current_time == LocalTime(len)
      start_time   == ParseTime(trade_start_time)
      end_time     == ParseTime(trade_end_time)
  IN  start_time <= current_time /\ current_time <= end_time

\* seeded fault: the date of the last trade is never consulted
already_traded_today_never(len) == FALSE

\* seeded fault: any earlier trade blocks the bar, whatever its date
already_traded_today_ever(len) == last_trade_date # << >>

\* strategy.py:97
already_traded_today(len) == last_trade_date = <<current_date(len)>>


(***************************************************************************)
(* Risk calculator.  A result is [out, v]: out = "ok" with the price v,    *)
(* out = "None" for a call that falls off the end of the function, or      *)
(* out = "IndexError" for a call ended by a buffer read.                   *)
(***************************************************************************)
Ok(v) == [out |-> "ok", v |-> v]

NoneResult == [out |-> "None", v |-> 0]

Raised == [out |-> "IndexError", v |-> 0]

\* the indices at which the long loop of calculate_stop_loss ends: a read
\* raises, or the index is a demand zone below the entry price
LongStops(len, entry_price) ==
  {i \in 0 .. len - 1 :
     \/ is_demand_zone_raises(len, i)
     \/ is_demand_zone(len, i) /\ Px(Bar(len, i).low) < entry_price}

ShortStops(len, entry_price) ==
  {i \in 0 .. len - 1 :
     \/ is_supply_zone_raises(len, i)
     \/ is_supply_zone(len, i) /\ Px(Bar(len, i).high) > entry_price}

calculate_stop_loss(len, entry_price, direction) ==
  IF direction = "long" /\ LongStops(len, entry_price) # {}
  THEN LET i == Min(LongStops(len, entry_price))
       IN  IF is_demand_zone_raises(len, i) THEN Raised
           ELSE Ok(Mul(Px(Bar(len, i).low), stop_loss_buffer))
  ELSE IF direction = "short" /\ ShortStops(len, entry_price) # {}
  THEN LET i == Min(ShortStops(len, entry_price))
       IN  IF is_supply_zone_raises(len, i) THEN Raised
           ELSE Ok(Mul(Px(Bar(len, i).high),
                       [num |-> 2 * stop_loss_buffer.den - stop_loss_buffer.num,
                        den |-> stop_loss_buffer.den]))
  ELSE IF direction = "long" THEN Ok(Mul(entry_price, default_stop_long))
  ELSE Ok(Mul(entry_price, default_stop_short))

\* seeded fault: the short target is put on the stop-loss side of the entry
calculate_take_profit_same_side(entry_price, stop_loss, direction) ==
  IF direction = "long"
  THEN Ok(entry_price + (entry_price - stop_loss) * rr_ratio)
  ELSE IF direction = "short"
  THEN Ok(entry_price + (stop_loss - entry_price) * rr_ratio)
  ELSE NoneResult

calculate_take_profit(entry_price, stop_loss, direction) ==
  IF direction = "long"
  THEN Ok(entry_price + (entry_price - stop_loss) * rr_ratio)
  ELSE IF direction = "short"
  THEN Ok(entry_price - (stop_loss - entry_price) * rr_ratio)
  ELSE NoneResult

calculate_atr_stop_loss(entry_price, direction, atr_value) ==
  IF direction = "long" THEN Ok(entry_price - atr_value * atr_multiplier)
  ELSE IF direction = "short" THEN Ok(entry_price + atr_value * atr_multiplier)
  ELSE NoneResult

calculate_atr_take_profit(entry_price, direction, atr_value) ==
  IF direction = "long"
  THEN Ok(entry_price + atr_value * atr_multiplier * rr_ratio)
  ELSE IF direction = "short"
  THEN Ok(entry_price - atr_value * atr_multiplier * rr_ratio)
  ELSE NoneResult

(***************************************************************************)
(* enter_trade(direction, index)                                           *)
(***************************************************************************)
\* seeded fault: the zone search is used in both modes
trade_stop_loss_always_zone(len, direction, index) ==
  calculate_stop_loss(len, Px(Bar(len, index).close), direction)

\* strategy.py:118-127: the stop-loss of the mode use_atr selects
trade_stop_loss(len, direction, index) ==
  IF use_atr
  THEN calculate_atr_stop_loss(Px(Bar(len, index).close), direction,
                               Px(Bar(len, index).atr))
  ELSE calculate_stop_loss(len, Px(Bar(len, index).close), direction)

\* strategy.py:118-127: the take-profit of the mode use_atr selects
trade_take_profit(len, direction, index, stop_loss) ==
  IF use_atr
  THEN calculate_atr_take_profit(Px(Bar(len, index).close), direction,
                                 Px(Bar(len, index).atr))
  ELSE calculate_take_profit(Px(Bar(len, index).close), stop_loss.v, direction)

Order(len, side, exectype, price) ==
  [bar |-> len, side |-> side, exectype |-> exectype, price |-> price]

\* seeded fault: the target order is forgotten
trade_orders_no_target(len, direction, stop_loss, take_profit) ==
  IF direction = "long"
  THEN << Order(len, "buy", "Market", 0),
          Order(len, "sell", "Stop", stop_loss.v) >>
  ELSE IF direction = "short"
  THEN << Order(len, "sell", "Market", 0),
          Order(len, "buy", "Stop", stop_loss.v) >>
  ELSE << >>

\* strategy.py:129-138: the orders of one trade; a market order has no price
trade_orders(len, direction, stop_loss, take_profit) ==
  IF direction = "long"
  THEN << Order(len, "buy", "Market", 0),
          Order(len, "sell", "Stop", stop_loss.v),
          Order(len, "sell", "Limit", take_profit.v) >>
  ELSE IF direction = "short"
  THEN << Order(len, "sell", "Market", 0),
          Order(len, "buy", "Stop", stop_loss.v),
          Order(len, "buy", "Limit", take_profit.v) >>
  ELSE << >>

\* what one call of enter_trade does: [out, stop_loss, take_profit, placed,
\* logged], out = "IndexError" when a read ends it before any order
enter_trade(len, direction, index) ==
  IF ~Readable(len, index)
  THEN [out |-> "IndexError", stop_loss |-> NoneResult,
        take_profit |-> NoneResult, placed |-> << >>, logged |-> << >>]
  ELSE
    LET entry_price == Px(Bar(len, index).close)
        stop_loss   == trade_stop_loss(len, direction, index)
        take_profit == trade_take_profit(len, direction, index, stop_loss)
        placed      == trade_orders(len, direction, stop_loss, take_profit)
    IN  IF stop_loss.out = "IndexError"
        THEN [out |-> "IndexError", stop_loss |-> stop_loss,
              take_profit |-> NoneResult, placed |-> << >>, logged |-> << >>]
        ELSE [out |-> IF placed = << >> THEN "None" ELSE "ok",
              stop_loss |-> stop_loss, take_profit |-> take_profit,
              placed |-> placed,
              logged |-> IF placed = << >> THEN << >>
                         ELSE << [bar |-> len, date |-> current_date(len),
                                  direction |-> direction, index |-> index,
                                  entry |-> entry_price,
                                  stop_loss |-> stop_loss.v,
                                  take_profit |-> take_profit.v] >>]


(***************************************************************************)
(* next(): the scan of strategy.py:101-112                                 *)
(***************************************************************************)
\* seeded fault: the scan ends one index early
ScanRange_one_short(len) == engulfing_lookback .. len - 3

\* range(self.params.engulfing_lookback, len(self.data) - 1)
ScanRange(len) == engulfing_lookback .. len - 2

\* seeded fault: the momentum of the long condition is read at the scan index
long_entry_momentum_at_index(len, i) ==
  /\ is_engulfing_pattern(len, i) = "bullish"
  /\ is_demand_zone(len, i)
  /\ Bar(len, i).rsi < 30 /\ Bar(len, i).percK < 20
  /\ is_fair_value_gap(len, i)

\* strategy.py:103-104
long_entry(len, i) ==
  /\ is_engulfing_pattern(len, i) = "bullish"
  /\ is_demand_zone(len, i)
  /\ is_bullish_momentum(len)
  /\ is_fair_value_gap(len, i)

\* strategy.py:108-109, reached when the long condition is false
short_entry(len, i) ==
  /\ ~long_entry(len, i)
  /\ is_engulfing_pattern(len, i) = "bearish"
  /\ is_supply_zone(len, i)
  /\ is_bearish_momentum(len)
  /\ is_fair_value_gap(len, i)

\* a read of the conditions at index i raises IndexError; the conditions are
\* evaluated left to right and stop at the first false one
index_raises(len, i) ==
  \/ is_engulfing_pattern_raises(len, i)
  \/ /\ is_engulfing_pattern(len, i) = "bullish"
     /\ \/ is_demand_zone_raises(len, i)
        \/ /\ is_demand_zone(len, i)
           /\ is_bullish_momentum(len)
           /\ is_fair_value_gap_raises(len, i)
  \/ /\ is_engulfing_pattern(len, i) = "bearish"
     /\ \/ is_supply_zone_raises(len, i)
        \/ /\ is_supply_zone(len, i)
           /\ is_bearish_momentum(len)
           /\ is_fair_value_gap_raises(len, i)

\* the indices at which the loop ends: a read raises, or an entry condition holds
ScanStops(len) ==
  {i \in ScanRange(len) :
     index_raises(len, i) \/ long_entry(len, i) \/ short_entry(len, i)}

\* seeded fault: the loop goes on to the last index at which it could end
first_stop_last(S) == CHOOSE x \in S : \A y \in S : x >= y

\* the index the loop ends at
first_stop(S) == Min(S)

\* the loop: [out, direction, index], out = "none" when the range is exhausted
scan(len) ==
  IF ScanStops(len) = {}
  THEN [out |-> "none", direction |-> "none", index |-> 0]
  ELSE LET i == first_stop(ScanStops(len))
       IN  IF index_raises(len, i)
           THEN [out |-> "IndexError", direction |-> "none", index |-> i]
           ELSE [out |-> "trade",
                 direction |-> IF long_entry(len, i) THEN "long" ELSE "short",
                 index |-> i]

\* strategy.py:95-98: the bar is scanned
admitted(len) == is_within_trading_hours(len) /\ ~already_traded_today(len)

\* seeded fault: the date is read at the triggering index, datetime.date(i)
traded_date_at_index(len, i) == <<Bar(len, i).ts \div DayMinutes>>

\* strategy.py:106, 111: the date last_trade_date is set to after the trade
\* triggered by index i: self.data.datetime.date(), the current bar's
traded_date(len, i) == <<current_date(len)>>

\* the engine delivers the next bar and calls next()
next ==
  /\ status = "running"
  /\ length < Len(data)
  /\ length' = length + 1
  /\ IF ~admitted(length + 1)
     THEN UNCHANGED <<last_trade_date, orders, intents, status>>
     ELSE
       LET s == scan(length + 1)
           t == enter_trade(length + 1, s.direction, s.index)
       IN  IF s.out = "none"
           THEN UNCHANGED <<last_trade_date, orders, intents, status>>
           ELSE IF s.out = "IndexError" \/ t.out = "IndexError"
           THEN /\ status' = "IndexError"
                /\ UNCHANGED <<last_trade_date, orders, intents>>
           ELSE /\ orders' = orders \o t.placed
                /\ intents' = intents \o t.logged
                /\ last_trade_date' = traded_date(length + 1, s.index)
                /\ UNCHANGED status
  /\ UNCHANGED <<data, preload, tz_offset, use_atr, call, ret>>

(***************************************************************************)
(* Feeds of a run                                                          *)
(***************************************************************************)
\* price, volume and ATR shapes of a bar; every shape is a well-formed bar
\* (low <= open, close <= high)
Flat == [open |-> 6, high |-> 7, low |-> 5, close |-> 6,
         volume |-> 2, avg_volume |-> 2, atr |-> 2]

Dip == [open |-> 5, high |-> 8, low |-> 3, close |-> 8,
        volume |-> 4, avg_volume |-> 2, atr |-> 4]

Peak == [open |-> 7, high |-> 9, low |-> 4, close |-> 4,
         volume |-> 4, avg_volume |-> 2, atr |-> 5]

\* RSI and %K readings: oversold, overbought, and RSI on the oversold limit
Oversold == [rsi |-> 29, percK |-> 19]

Overbought == [rsi |-> 71, percK |-> 81]

OnLimit == [rsi |-> 30, percK |-> 19]

Momenta == {Oversold, Overbought, OnLimit}

MakeBar(ts, shape, mom) ==
  [ts |-> ts, open |-> shape.open, high |-> shape.high, low |-> shape.low,
   close |-> shape.close, volume |-> shape.volume,
   avg_volume |-> shape.avg_volume, atr |-> shape.atr,
   rsi |-> mom.rsi, percK |-> mom.percK]

\* evenly spaced bars: bar MinPeriod (the first one next() sees) is at naive
\* time-of-day first, and tz is the offset to Oslo time
Calendars ==
  { [first |-> 7 * 60 + 59, step |-> 1, tz |-> 0],
    [first |-> 21 * 60, step |-> 1, tz |-> 60],
    [first |-> 12 * 60, step |-> 60, tz |-> 0],
    [first |-> 10 * 60, step |-> DayMinutes, tz |-> 120],
    [first |-> 3 * 60, step |-> 7 * 60, tz |-> 0] }

Timestamp(cal, k) ==
  FeedLen * DayMinutes + cal.first + (k - MinPeriod) * cal.step

\* the bars next() can read: the warm-up bars before them are flat
EventPositions == MinPeriod - 1 .. FeedLen

RunFeed(cal, events, kind, momEven, momOdd) ==
  [k \in 1 .. FeedLen |->
     MakeBar(Timestamp(cal, k),
             IF k \in events THEN kind[k] ELSE Flat,
             IF k % 2 = 0 THEN momEven ELSE momOdd)]

\* the state when the indicators' minimum period is reached: __init__
\* (strategy.py:20-30) has run and the engine has delivered MinPeriod - 1 bars
\* to prenext(), which the strategy does not override
Init ==
  /\ \E cal \in Calendars, events \in SUBSET EventPositions,
        momEven \in Momenta, momOdd \in Momenta :
       /\ Cardinality(events) <= MaxEvents
       /\ \E kind \in [events -> {Dip, Peak}] :
            data = RunFeed(cal, events, kind, momEven, momOdd)
       /\ tz_offset = cal.tz
  /\ preload \in BOOLEAN
  /\ use_atr \in BOOLEAN
  /\ length = MinPeriod - 1
  /\ last_trade_date = << >>
  /\ orders = << >>
  /\ intents = << >>
  /\ status = "running"
  /\ call = [op |-> "none"]
  /\ ret = [out |-> "none"]

Next == next

Spec == Init /\ [][Next]_vars


(***************************************************************************)
(* Direct calls of the classification queries                              *)
(***************************************************************************)
BoolOut(raises, value) ==
  [out |-> IF raises THEN "IndexError" ELSE IF value THEN "True" ELSE "False"]

\* what the classification query op returns at index
query_result(op, index) ==
  CASE op = "is_demand_zone" ->
         BoolOut(is_demand_zone_raises(length, index),
                 is_demand_zone(length, index))
    [] op = "is_supply_zone" ->
         BoolOut(is_supply_zone_raises(length, index),
                 is_supply_zone(length, index))
    [] op = "is_fair_value_gap" ->
         BoolOut(is_fair_value_gap_raises(length, index),
                 is_fair_value_gap(length, index))
    [] op = "is_engulfing_pattern" ->
         [out |-> IF is_engulfing_pattern_raises(length, index)
                  THEN "IndexError"
                  ELSE is_engulfing_pattern(length, index)]
    [] op = "is_bullish_momentum" -> BoolOut(FALSE, is_bullish_momentum(length))
    [] op = "is_bearish_momentum" -> BoolOut(FALSE, is_bearish_momentum(length))
    [] op = "is_within_trading_hours" ->
         BoolOut(FALSE, is_within_trading_hours(length))

\* seeded fault: the session-window query records the date it was asked on
query_effect_recording(op) ==
  /\ last_trade_date' = IF op = "is_within_trading_hours"
                        THEN <<current_date(length)>> ELSE last_trade_date
  /\ UNCHANGED <<data, preload, tz_offset, use_atr, length, orders, intents,
                 status>>

\* the queries leave every attribute of the strategy alone
query_effect(op) ==
  UNCHANGED <<data, preload, tz_offset, use_atr, length, last_trade_date,
              orders, intents, status>>

\* call.repeat: the call before this one was the same query
IndexedQueries ==
  {"is_demand_zone", "is_supply_zone", "is_fair_value_gap",
   "is_engulfing_pattern"}

CurrentBarQueries ==
  {"is_bullish_momentum", "is_bearish_momentum", "is_within_trading_hours"}

QueryIndexed ==
  \E op \in IndexedQueries, index \in 0 .. MaxIndex :
    /\ call' = [op |-> op, index |-> index,
                repeat |-> call.op = op /\ call.index = index]
    /\ ret' = query_result(op, index)
    /\ query_effect(op)

QueryCurrentBar ==
  \E op \in CurrentBarQueries :
    /\ call' = [op |-> op, index |-> 0, repeat |-> call.op = op]
    /\ ret' = query_result(op, 0)
    /\ query_effect(op)

\* feeds of the query specification
UpBody == [open |-> 3, close |-> 5]

DownBody == [open |-> 4, close |-> 2]

QueryBar(ts, low, high, volume, body, mom) ==
  [ts |-> ts, open |-> body.open, high |-> high, low |-> low,
   close |-> body.close, volume |-> volume, avg_volume |-> 2, atr |-> 1,
   rsi |-> mom.rsi, percK |-> mom.percK]

Noon == FeedLen * DayMinutes + 12 * 60

\* lows, highs and volume vary (volume 3 is exactly 1.5 times the average)
ZoneFeeds ==
  {[k \in 1 .. QueryLen |-> QueryBar(Noon + k, lo[k], hi[k], vol, UpBody, OnLimit)] :
     lo \in [1 .. QueryLen -> {1, 2}], hi \in [1 .. QueryLen -> {6, 7}],
     vol \in {3, 4}}

\* opens and closes vary
PatternFeeds ==
  {[k \in 1 .. QueryLen |-> QueryBar(Noon + k, 1, 7, 4, body[k], OnLimit)] :
     body \in [1 .. QueryLen -> {UpBody, DownBody}]}

\* RSI, %K and the time of day vary, around their limits
GaugeFeeds ==
  {[k \in 1 .. QueryLen |->
      QueryBar(FeedLen * DayMinutes + t + k - 1, 1, 7, 4, UpBody,
               [rsi |-> r, percK |-> p])] :
     r \in {29, 30, 70, 71}, p \in {19, 20, 80, 81},
     t \in {7 * 60 + 59, 21 * 60 + 59}}

TzOffsets == {0, 60, 120}

InitQuery ==
  /\ \/ data \in ZoneFeeds \cup PatternFeeds /\ tz_offset = 0
     \/ data \in GaugeFeeds /\ tz_offset \in TzOffsets
  /\ preload \in BOOLEAN
  /\ use_atr = FALSE
  /\ length \in 1 .. QueryLen
  /\ last_trade_date = << >>
  /\ orders = << >>
  /\ intents = << >>
  /\ status = "running"
  /\ call = [op |-> "none", index |-> 0, repeat |-> FALSE]
  /\ ret = [out |-> "none"]

NextQuery == QueryIndexed \/ QueryCurrentBar

SpecQuery == InitQuery /\ [][NextQuery]_vars


(***************************************************************************)
(* Direct calls of the risk calculator                                     *)
(***************************************************************************)
\* "flat" stands for every direction other than 'long' and 'short'
Directions == {"long", "short", "flat"}

\* entry prices of the direct calls, in ticks: between the lows and between
\* the highs of the shapes, and the 100 of the specification's scenarios
EntryTicks == {4, 8, 100}

\* stop-loss prices handed to calculate_take_profit for an entry price
StopLossesFor(entry_price) ==
  { Mul(entry_price, default_stop_long), Mul(entry_price, default_stop_short),
    entry_price - Den, entry_price + 3 * Den, entry_price }

CallStopLoss ==
  \E e \in EntryTicks, direction \in Directions :
    /\ call.op = "none"
    /\ call' = [op |-> "calculate_stop_loss", entry_price |-> Px(e),
                direction |-> direction]
    /\ ret' = calculate_stop_loss(length, Px(e), direction)
    /\ UNCHANGED <<data, preload, tz_offset, use_atr, length, last_trade_date,
                   orders, intents, status>>

CallTakeProfit ==
  \E e \in EntryTicks, direction \in Directions :
    \E stop_loss \in StopLossesFor(Px(e)) :
      /\ call.op = "none"
      /\ call' = [op |-> "calculate_take_profit", entry_price |-> Px(e),
                  stop_loss |-> stop_loss, direction |-> direction]
      /\ ret' = calculate_take_profit(Px(e), stop_loss, direction)
      /\ UNCHANGED <<data, preload, tz_offset, use_atr, length,
                     last_trade_date, orders, intents, status>>

CallAtrStopLoss ==
  \E e \in EntryTicks, direction \in Directions, a \in 0 .. MaxAtr :
    /\ call.op = "none"
    /\ call' = [op |-> "calculate_atr_stop_loss", entry_price |-> Px(e),
                direction |-> direction, atr_value |-> Px(a)]
    /\ ret' = calculate_atr_stop_loss(Px(e), direction, Px(a))
    /\ UNCHANGED <<data, preload, tz_offset, use_atr, length, last_trade_date,
                   orders, intents, status>>

CallAtrTakeProfit ==
  \E e \in EntryTicks, direction \in Directions, a \in 0 .. MaxAtr :
    /\ call.op = "none"
    /\ call' = [op |-> "calculate_atr_take_profit", entry_price |-> Px(e),
                direction |-> direction, atr_value |-> Px(a)]
    /\ ret' = calculate_atr_take_profit(Px(e), direction, Px(a))
    /\ UNCHANGED <<data, preload, tz_offset, use_atr, length, last_trade_date,
                   orders, intents, status>>

\* enter_trade called directly: it places its orders and returns nothing, or
\* a buffer read ends it
CallEnterTrade ==
  \E direction \in Directions, index \in 0 .. MaxIndex :
    LET t == enter_trade(length, direction, index)
    IN  /\ call.op = "none"
        /\ call' = [op |-> "enter_trade", direction |-> direction,
                    index |-> index]
        /\ ret' = [out |-> t.out, stop_loss |-> t.stop_loss,
                   take_profit |-> t.take_profit]
        /\ orders' = orders \o t.placed
        /\ intents' = intents \o t.logged
        /\ status' = IF t.out = "IndexError" THEN "IndexError" ELSE status
        /\ UNCHANGED <<data, preload, tz_offset, use_atr, length,
                       last_trade_date>>

\* feeds of the risk specification: every sequence of shapes, with one ATR
\* reading for all bars
RiskFeeds ==
  {[k \in 1 .. RiskLen |->
      MakeBar(Noon + k, [shape[k] EXCEPT !.atr = a], OnLimit)] :
     shape \in [1 .. RiskLen -> {Flat, Dip, Peak}], a \in 0 .. MaxAtr}

InitRisk ==
  /\ data \in RiskFeeds
  /\ preload \in BOOLEAN
  /\ tz_offset = 0
  /\ use_atr \in BOOLEAN
  /\ length \in 2 .. RiskLen - 1
  /\ last_trade_date = << >>
  /\ orders = << >>
  /\ intents = << >>
  /\ status = "running"
  /\ call = [op |-> "none"]
  /\ ret = [out |-> "none"]

NextRisk ==
  \/ CallStopLoss
  \/ CallTakeProfit
  \/ CallAtrStopLoss
  \/ CallAtrTakeProfit
  \/ CallEnterTrade

SpecRisk == InitRisk /\ [][NextRisk]_vars


(***************************************************************************)
(* Properties                                                              *)
(***************************************************************************)
\* the indices of the scan range at which an entry condition holds
Qualifying(len) ==
  {i \in ScanRange(len) : long_entry(len, i) \/ short_entry(len, i)}

\* the bar just processed was delivered to next() (not a warm-up bar)
Processed == length >= MinPeriod

\* C1: no two completed enter_trade calls of a run are on the same calendar
\* date, however many in-window bars of that date have qualifying indices.
C1_OneIntentPerDate ==
  \A a, b \in 1 .. Len(intents) :
    a # b => intents[a].date # intents[b].date

\* C1 witness: a bar inside the session window, with a qualifying index, on
\* the date of an earlier trade, has been processed without a second trade.
C1_Witness ==
  /\ status = "running"
  /\ Len(intents) = 1
  /\ intents[1].bar < length
  /\ intents[1].date = current_date(length)
  /\ is_within_trading_hours(length)
  /\ Qualifying(length) # {}

\* C7: a bar is inside the session window exactly when its Oslo time of day
\* is from 08:00 to 22:00, both included, and processing a bar outside the
\* window places no order and leaves last_trade_date alone.
C7_SessionGate ==
  [][ length' = length + 1 =>
        /\ is_within_trading_hours(length')
             <=> (8 * 60 <= LocalTime(length') /\ LocalTime(length') <= 22 * 60)
        /\ (LocalTime(length') < 8 * 60 \/ LocalTime(length') > 22 * 60)
             => /\ orders' = orders
                /\ intents' = intents
                /\ last_trade_date' = last_trade_date ]_vars

\* C7 witness: a bar one minute after the end of the window, with a qualifying
\* index and no trade yet in the run, has been processed without a trade.
C7_Witness ==
  /\ Processed
  /\ status = "running"
  /\ LocalTime(length) = 22 * 60 + 1
  /\ Qualifying(length) # {}
  /\ last_trade_date = << >>
  /\ orders = << >>

\* C8: every trade is triggered by the smallest index of its bar's scan range
\* at which an entry condition holds, in that condition's direction, and no
\* other trade is made on that bar or on that date.
C8_FirstQualifyingIndex ==
  \A a \in 1 .. Len(intents) :
    LET t == intents[a]
    IN  /\ t.index \in Qualifying(t.bar)
        /\ \A i \in Qualifying(t.bar) : t.index <= i
        /\ t.direction = (IF long_entry(t.bar, t.index) THEN "long" ELSE "short")
        /\ \A b \in 1 .. Len(intents) :
             b # a => intents[b].bar # t.bar /\ intents[b].date # t.date

\* C8 witness: a trade whose scan had several qualifying indices, followed by
\* an in-window bar of the same date that has a qualifying index too.
C8_Witness ==
  /\ status = "running"
  /\ Len(intents) = 1
  /\ Cardinality(Qualifying(intents[1].bar)) >= 2
  /\ intents[1].bar < length
  /\ intents[1].date = current_date(length)
  /\ is_within_trading_hours(length)
  /\ Qualifying(length) # {}

\* the orders of one complete trade placed while processing bar len
CompleteTrade(new, len) ==
  /\ Len(new) = 3
  /\ \A k \in 1 .. 3 : new[k].bar = len
  /\ new[1].exectype = "Market"
  /\ new[2].exectype = "Stop"
  /\ new[3].exectype = "Limit"
  /\ new[1].side \in {"buy", "sell"}
  /\ new[2].side \in {"buy", "sell"} \ {new[1].side}
  /\ new[3].side = new[2].side

\* C9: processing a bar either places no order and leaves last_trade_date
\* unchanged, or places one entry order with one stop and one target order on
\* the opposite side and sets last_trade_date to the date of that bar.
C9_NoPartialTrade ==
  [][ length' = length + 1 =>
        LET new == SubSeq(orders', Len(orders) + 1, Len(orders'))
        IN  \/ new = << >> /\ last_trade_date' = last_trade_date
            \/ /\ CompleteTrade(new, length')
               /\ last_trade_date' = <<current_date(length')>>
               /\ Len(intents') = Len(intents) + 1 ]_vars

\* C9 witness: the bar just processed made a trade, and a bar processed
\* before it in the same run was scanned without one.
C9_Witness ==
  /\ Len(orders) = 3
  /\ orders[1].bar = length
  /\ length > MinPeriod
  /\ last_trade_date = <<current_date(length)>>
  /\ \E len \in MinPeriod .. length - 1 :
       is_within_trading_hours(len) /\ Qualifying(len) = {}


\* position pos (from 1) is a bar of the buffers
Exists(len, ago) == len + ago >= 1 /\ len + ago <= BufLen(len)

\* C2: after enter_trade for 'long' the stop-loss is below and the take-profit
\* above the entry price, and the reverse for 'short', in both risk modes.
C2_StopAndTargetOrdered ==
  (call.op = "enter_trade" /\ ret.out = "ok") =>
    LET entry_price == Px(Bar(length, call.index).close)
    IN  IF call.direction = "long"
        THEN ret.stop_loss.v < entry_price /\ entry_price < ret.take_profit.v
        ELSE ret.take_profit.v < entry_price /\ entry_price < ret.stop_loss.v

\* C3: a risk calculator call with a direction other than 'long' and 'short'
\* ends in an InvalidDirection error.
C3_InvalidDirectionRejected ==
  (call.op \in {"calculate_stop_loss", "calculate_take_profit",
                "calculate_atr_stop_loss", "calculate_atr_take_profit",
                "enter_trade"}
     /\ call.direction \notin {"long", "short"})
    => ret.out = "InvalidDirection"

\* C4: no run is ended by a classification query of the scan at a bar that
\* exists but has no bar after it (the last bar of the series).
C4_BoundaryQueryNeverFails ==
  status = "IndexError" =>
    ~(Exists(length, scan(length).index)
        /\ ~Exists(length, scan(length).index + 1))

\* C5: at an index with both neighbours in the series, is_demand_zone is true
\* exactly when the low is strictly below both neighbouring lows and the
\* volume is above 1.5 times the average volume; is_supply_zone likewise with
\* the high strictly above both neighbouring highs.
C5_ZoneIffSwingAndVolume ==
  (call.op \in {"is_demand_zone", "is_supply_zone"}
     /\ Exists(length, call.index - 1) /\ Exists(length, call.index + 1)) =>
    LET i == length + call.index
        busy == 2 * data[i].volume > 3 * data[i].avg_volume
        swing_low == data[i].low < data[i - 1].low /\ data[i].low < data[i + 1].low
        swing_high == data[i].high > data[i - 1].high
                        /\ data[i].high > data[i + 1].high
    IN  /\ ret.out \in {"True", "False"}
        /\ call.op = "is_demand_zone" => (ret.out = "True" <=> (swing_low /\ busy))
        /\ call.op = "is_supply_zone" => (ret.out = "True" <=> (swing_high /\ busy))

\* C5 witness: a low equal to the next bar's low and below the previous one,
\* with enough volume, is not a demand zone.
C5_Witness ==
  /\ call.op = "is_demand_zone"
  /\ Exists(length, call.index - 1) /\ Exists(length, call.index + 1)
  /\ data[length + call.index].low < data[length + call.index - 1].low
  /\ data[length + call.index].low = data[length + call.index + 1].low
  /\ 2 * data[length + call.index].volume > 3 * data[length + call.index].avg_volume
  /\ ret.out = "False"

\* C6: for 'long' and 'short', calculate_take_profit returns a price at
\* rr_ratio times the distance between entry and stop-loss, on the other side
\* of the entry price.
C6_TakeProfitDistance ==
  (call.op = "calculate_take_profit" /\ call.direction \in {"long", "short"}) =>
    /\ ret.out = "ok"
    /\ Abs(ret.v - call.entry_price) = 3 * Abs(call.entry_price - call.stop_loss)
    /\ call.stop_loss < call.entry_price => ret.v > call.entry_price
    /\ call.stop_loss > call.entry_price => ret.v < call.entry_price

\* C6 witness: entry 100, stop-loss 98, long gives 106.
C6_Witness ==
  /\ call.op = "calculate_take_profit"
  /\ call.direction = "long"
  /\ call.entry_price = Px(100)
  /\ call.stop_loss = Px(98)
  /\ ret = Ok(Px(106))

OversoldAt(pos) == data[pos].rsi < 30 /\ data[pos].percK < 20

OverboughtAt(pos) == data[pos].rsi > 70 /\ data[pos].percK > 80

\* C11: every trade made while processing bar b with triggering index i rests
\* on all four conditions: for 'long' the bar i ahead of b closes above the
\* open and opens below the close of the bar before it, its low is strictly
\* below both neighbouring lows with volume above 1.5 times the average, its
\* close is more than fvg_threshold away from the previous open, and bar b
\* itself (not the bar at index i) has RSI < 30 and %K < 20; for 'short' the
\* mirror conditions with RSI > 70 and %K > 80 on bar b.
C11_IntentJustified ==
  \A a \in 1 .. Len(intents) :
    LET t == intents[a]
        p == t.bar + t.index
    IN  /\ p - 1 >= 1 /\ p + 1 <= Len(data)
        /\ Abs(data[p].close - data[p - 1].open) > fvg_threshold
        /\ 2 * data[p].volume > 3 * data[p].avg_volume
        /\ t.direction = "long" =>
             /\ data[p].close > data[p - 1].open
             /\ data[p].open < data[p - 1].close
             /\ data[p].low < data[p - 1].low /\ data[p].low < data[p + 1].low
             /\ OversoldAt(t.bar)
        /\ t.direction = "short" =>
             /\ data[p].close < data[p - 1].open
             /\ data[p].open > data[p - 1].close
             /\ data[p].high > data[p - 1].high
             /\ data[p].high > data[p + 1].high
             /\ OverboughtAt(t.bar)
        /\ t.direction \in {"long", "short"}

\* C11 witness: a long trade whose triggering bar is not oversold itself, and
\* an earlier bar of the run that was scanned, had the same bar at a scan
\* index, and made no trade because that earlier bar was not oversold.
C11_Witness ==
  /\ Len(intents) = 1
  /\ intents[1].direction = "long"
  /\ ~OversoldAt(intents[1].bar + intents[1].index)
  /\ intents[1].bar > MinPeriod
  /\ is_within_trading_hours(intents[1].bar - 1)
  /\ intents[1].index + 1 \in ScanRange(intents[1].bar - 1)
  /\ ~OversoldAt(intents[1].bar - 1)

\* an entry condition of next() holds at index i of bar len
Setup(len, i) == long_entry(len, i) \/ short_entry(len, i)

\* the bar about to be processed passes both checks of strategy.py:95-98
Admitted ==
  /\ status = "running"
  /\ length' = length + 1
  /\ is_within_trading_hours(length')
  /\ last_trade_date # <<current_date(length')>>

DemandZoneAt(len, p) ==
  /\ p - 1 >= 1 /\ p + 1 <= len
  /\ data[p].low < data[p - 1].low /\ data[p].low < data[p + 1].low
  /\ 2 * data[p].volume > 3 * data[p].avg_volume

SupplyZoneAt(len, p) ==
  /\ p - 1 >= 1 /\ p + 1 <= len
  /\ data[p].high > data[p - 1].high /\ data[p].high > data[p + 1].high
  /\ 2 * data[p].volume > 3 * data[p].avg_volume

\* the zones of the series that lie on the stop-loss side of the entry price
ZonesBelow(len, entry_price) ==
  {p \in 1 .. len : DemandZoneAt(len, p) /\ Px(data[p].low) < entry_price}

ZonesAbove(len, entry_price) ==
  {p \in 1 .. len : SupplyZoneAt(len, p) /\ Px(data[p].high) > entry_price}

\* C13: calculate_stop_loss for 'long' returns low * 0.995 of the oldest bar of
\* the series that is a demand zone with its low below the entry price, and
\* entry * 0.98 when the series has no such bar; for 'short' it returns
\* high * 1.005 of the oldest supply zone with its high above the entry price,
\* and entry * 1.02 when there is none.
C13_StopFromOldestZone ==
  (call.op = "calculate_stop_loss" /\ call.direction \in {"long", "short"}) =>
    LET below == ZonesBelow(length, call.entry_price)
        above == ZonesAbove(length, call.entry_price)
    IN  /\ ret.out = "ok"
        /\ call.direction = "long" =>
             ret.v = IF below # {}
                     THEN (Px(data[Min(below)].low) * 995) \div 1000
                     ELSE (call.entry_price * 98) \div 100
        /\ call.direction = "short" =>
             ret.v = IF above # {}
                     THEN (Px(data[Min(above)].high) * 1005) \div 1000
                     ELSE (call.entry_price * 102) \div 100

\* the stop-loss of a trade of bar b in RR-ratio mode, from prices and volumes
\* alone: the first zone at or after bar b on the stop-loss side of the entry
RRStop(b, entry_price, direction) ==
  LET below == {p \in b .. Len(data) :
                  DemandZoneAt(Len(data), p) /\ Px(data[p].low) < entry_price}
      above == {p \in b .. Len(data) :
                  SupplyZoneAt(Len(data), p) /\ Px(data[p].high) > entry_price}
  IN  IF direction = "long"
      THEN IF below = {} THEN (entry_price * 98) \div 100
           ELSE (Px(data[Min(below)].low) * 995) \div 1000
      ELSE IF above = {} THEN (entry_price * 102) \div 100
           ELSE (Px(data[Min(above)].high) * 1005) \div 1000

\* C14: use_atr alone selects the risk mode of a trade.  With use_atr set the
\* stop-loss is entry - ATR * 2 and the take-profit entry + ATR * 2 * 3 for
\* 'long' (signs swapped for 'short'), with the ATR of the triggering index
\* and whatever the zones are; with use_atr unset the stop-loss is the zone or
\* fallback stop and the take-profit is 3 times its distance beyond the entry,
\* whatever the ATR is.
C14_RiskModeByFlag ==
  \A a \in 1 .. Len(intents) :
    LET t    == intents[a]
        sign == IF t.direction = "long" THEN 1 ELSE 0 - 1
        atr  == Px(data[t.bar + t.index].atr)
        stop == RRStop(t.bar, t.entry, t.direction)
    IN  /\ t.entry = Px(data[t.bar + t.index].close)
        /\ use_atr => /\ t.stop_loss = t.entry - sign * atr * 2
                      /\ t.take_profit = t.entry + sign * atr * 2 * 3
        /\ ~use_atr => /\ t.stop_loss = stop
                       /\ t.take_profit = t.entry + (t.entry - stop) * 3

\* C14 witness: a trade in ATR mode whose triggering bar and current bar have
\* different ATR readings, and whose ATR stop differs from the zone stop.
C14_Witness ==
  /\ use_atr
  /\ Len(intents) = 1
  /\ data[intents[1].bar + intents[1].index].atr # data[intents[1].bar].atr
  /\ intents[1].stop_loss
       # RRStop(intents[1].bar, intents[1].entry, intents[1].direction)
\* the calendar date of the bar at position p (from 1)
DateAt(p) == data[p].ts \div DayMinutes

\* C15: last_trade_date starts as None and changes only in a step of next()
\* that makes a trade, which sets it to the date of the bar being processed
\* (not of the bar at the triggering index); it is left alone when the bar is
\* outside 08:00-22:00, when its date is last_trade_date already, and when no
\* index of the scan range meets an entry condition.
C15_LastTradeDateFrame ==
  /\ last_trade_date = << >>
  /\ [][ /\ (last_trade_date' # last_trade_date)
              => (Len(intents') = Len(intents) + 1 /\ length' = length + 1)
         /\ (Len(intents') > Len(intents))
              => (last_trade_date' = <<DateAt(length')>>)
         /\ ( \/ LocalTime(length') < 8 * 60
              \/ LocalTime(length') > 22 * 60
              \/ last_trade_date = <<DateAt(length')>>
              \/ \A i \in engulfing_lookback .. length' - 2 : ~Setup(length', i) )
              => (last_trade_date' = last_trade_date) ]_vars

\* C15 witness: after a scanned bar without a trade, a trade triggered by a bar
\* of a later date than the bar being processed has set last_trade_date to the
\* date of the bar being processed.
C15_Witness ==
  /\ Len(intents) = 1
  /\ intents[1].bar = length
  /\ length > MinPeriod
  /\ DateAt(length + intents[1].index) > DateAt(length)
  /\ last_trade_date = <<DateAt(length)>>
  /\ is_within_trading_hours(length - 1)

\* C16: the processing of every bar comes to its end in one of two ways: the
\* scan stops at the first index meeting an entry condition and the stop-loss
\* search at its first zone or the end of the series (one trade is made), or
\* the scan runs out of indices (no trade is made); either way the run goes on
\* to the next bar, which is scanned from engulfing_lookback again.
C16_ScanEndsByMatchOrExhaustion ==
  [][ (status = "running" /\ length' = length + 1) =>
        /\ status' = "running"
        /\ \/ intents' = intents /\ orders' = orders
           \/ Len(intents') = Len(intents) + 1
        /\ (/\ is_within_trading_hours(length')
            /\ \A i \in engulfing_lookback .. length' - 2 : ~Setup(length', i))
             => (intents' = intents /\ orders' = orders) ]_vars
\* the bar at position p (from 1) closes above the open and opens below the
\* close of the bar before it / closes below the open and opens above the close
BullishAt(p) ==
  data[p].close > data[p - 1].open /\ data[p].open < data[p - 1].close

BearishAt(p) ==
  data[p].close < data[p - 1].open /\ data[p].open > data[p - 1].close

\* C17: the bullish and the bearish engulfing conditions never hold at the same
\* index and the bullish and the bearish momentum conditions never hold on the
\* same bar, so is_engulfing_pattern answers 'bearish' exactly when the
\* bearish condition holds (not only when the bullish one, tested first, has
\* failed), and either momentum query being true means the other is false.
C17_DirectionsExclusive ==
  /\ (call.op = "is_engulfing_pattern"
        /\ Exists(length, call.index - 1) /\ Exists(length, call.index)) =>
       LET p == length + call.index
       IN  /\ ~(BullishAt(p) /\ BearishAt(p))
           /\ ret.out = "bullish" <=> BullishAt(p)
           /\ ret.out = "bearish" <=> BearishAt(p)
  /\ call.op = "is_bullish_momentum" =>
       /\ ret.out = "True" <=> OversoldAt(length)
       /\ ret.out = "True" => ~OverboughtAt(length)
  /\ call.op = "is_bearish_momentum" =>
       /\ ret.out = "True" <=> OverboughtAt(length)
       /\ ret.out = "True" => ~OversoldAt(length)

\* C17 witness: is_engulfing_pattern has answered 'bearish', from its second
\* branch.
C17_Witness ==
  /\ call.op = "is_engulfing_pattern"
  /\ Exists(length, call.index - 1) /\ Exists(length, call.index)
  /\ ret.out = "bearish"
  /\ BearishAt(length + call.index)
\* C18: once a trade has set last_trade_date to a date D, a bar of a later
\* date that is inside 08:00-22:00 and has an index of the scan range meeting
\* an entry condition makes a trade, and last_trade_date moves on to that
\* bar's date.
C18_ThrottleReleasesNextDate ==
  [][ ( /\ status = "running"
        /\ length' = length + 1
        /\ last_trade_date # << >>
        /\ Len(intents) >= 1
        /\ last_trade_date[1] < DateAt(length')
        /\ 8 * 60 <= LocalTime(length') /\ LocalTime(length') <= 22 * 60
        /\ \E i \in engulfing_lookback .. length' - 2 : Setup(length', i) )
      => ( /\ Len(intents') = Len(intents) + 1
           /\ intents'[Len(intents')].bar = length'
           /\ last_trade_date' = <<DateAt(length')>> ) ]_vars

\* C18 witness: two trades of one run, the second on a later date than the
\* first and made by the bar just processed.
C18_Witness ==
  /\ Len(intents) = 2
  /\ intents[1].date < intents[2].date
  /\ intents[2].bar = length
  /\ last_trade_date = <<intents[2].date>>

====
